---- MODULE Spec2Model ----
(***************************************************************************)
(* A model of ask-nextjs: the documentation indexer, that is the directory *)
(* walker (walk), path canonicalisation (formatPath), the MDX segmenter    *)
(* (processMdxForSearch) and the synchronisation loop (indexFiles) over    *)
(* the page / page_section tables, and the query route (GET) that searches *)
(* the tables.                                                             *)
(*                                                                         *)
(* Spec is the indexer; SearchSpec is the query route over a store at      *)
(* rest; ServingSpec is the query route while the indexer runs;            *)
(* FormatSpec, SplitSpec and MetaSpec apply formatPath, splitTreeBy and    *)
(* getObjectFromExpression to their arguments.                             *)
(*                                                                         *)
(* Text is modelled as a sequence of one-character strings, so that the    *)
(* regular expressions of formatPath and the ordering of walk are computed *)
(* character by character.  An absent value (null / undefined) is          *)
(*   <<>>  for a path, a checksum, a heading, a meta record, an embedding  *)
(*   0     for a row id (BIGSERIAL ids start at 1).                        *)
(***************************************************************************)
EXTENDS Integers, Sequences, FiniteSets, TLC

(***************************************************************************)
(* Bounds of the model.                                                    *)
(***************************************************************************)
\* the number of times the indexing script is started
MaxRuns == 3
\* the number of distinct texts a source file can hold
MaxContent == 2
\* the number of events of the environment: rewrites of a source file, operations
\* that fail, kills of the process
MaxEvents == 2

(***************************************************************************)
(* Text helpers.                                                           *)
(***************************************************************************)
Digits == {"0", "1", "2", "3", "4", "5", "6", "7", "8", "9"}

\* the suffix of s that starts at position n
From(s, n) == SubSeq(s, n, Len(s))

EndsWith(s, suffix) ==
    /\ Len(s) >= Len(suffix)
    /\ SubSeq(s, Len(s) - Len(suffix) + 1, Len(s)) = suffix

StartsWith(s, prefix) ==
    /\ Len(s) >= Len(prefix)
    /\ SubSeq(s, 1, Len(prefix)) = prefix

DropSuffix(s, suffix) ==
    IF EndsWith(s, suffix) THEN SubSeq(s, 1, Len(s) - Len(suffix)) ELSE s

\* .replace(/\\\\/g, '/'): every pair of consecutive backslashes becomes one slash
RECURSIVE ReplaceDoubleBackslash(_)
ReplaceDoubleBackslash(s) ==
    IF s = <<>> THEN <<>>
    ELSE IF StartsWith(s, <<"\\", "\\">>)
         THEN <<"/">> \o ReplaceDoubleBackslash(From(s, 3))
         ELSE <<Head(s)>> \o ReplaceDoubleBackslash(Tail(s))

\* .replace(/\d{2}-/g, ''): every two digits followed by a dash are removed
RECURSIVE RemoveNumberPrefixes(_)
RemoveNumberPrefixes(s) ==
    IF s = <<>> THEN <<>>
    ELSE IF Len(s) >= 3 /\ s[1] \in Digits /\ s[2] \in Digits /\ s[3] = "-"
         THEN RemoveNumberPrefixes(From(s, 4))
         ELSE <<Head(s)>> \o RemoveNumberPrefixes(Tail(s))

DotMdx == <<".", "m", "d", "x">>
DotMd == <<".", "m", "d">>
IndexName == <<"i", "n", "d", "e", "x">>
IndexMdx == IndexName \o DotMdx

\* formatPath: the four replacements, in the order of the source
formatPath(path) ==
    DropSuffix(
        DropSuffix(RemoveNumberPrefixes(ReplaceDoubleBackslash(path)), DotMdx),
        <<"\\">> \o IndexName)

(***************************************************************************)
(* The file system under 'docs' and the walker.                            *)
(* A file is the sequence of its path segments; a directory is a proper    *)
(* prefix of a file.                                                       *)
(***************************************************************************)
DocsName == <<"d">>
GuideName == <<"0", "1", "-", "a">> \o DotMdx
SubDirName == <<"s">>
NoteName == <<"n", ".", "t", "x", "t">>

FileSystem ==
    { <<DocsName, GuideName>>,
      <<DocsName, IndexMdx>>,
      <<DocsName, SubDirName, NoteName>> }

\* the directory the script walks: 'docs'
RootDir == <<DocsName>>

\* the separator of path.join on the platform the script runs on
sep == "/"

\* join(dir, file)
join(dir, file) == dir \o <<sep>> \o file

\* the path string of a sequence of segments
RECURSIVE PathOf(_)
PathOf(segs) ==
    IF Len(segs) = 1 THEN segs[1]
    ELSE join(PathOf(SubSeq(segs, 1, Len(segs) - 1)), segs[Len(segs)])

\* readdir(dir): the names directly under dir
readdir(dir) ==
    { f[Len(dir) + 1] : f \in { g \in FileSystem :
                                  Len(g) > Len(dir) /\ SubSeq(g, 1, Len(dir)) = dir } }

isFile(segs) == segs \in FileSystem

\* the rank of a character in the collation of localeCompare: punctuation,
\* then digits, then letters
CharRank(c) ==
    CASE c = "-" -> 1 [] c = "." -> 2 [] c = "/" -> 3 [] c = "\\" -> 4
      [] c = "0" -> 10 [] c = "1" -> 11 [] c = "2" -> 12 [] c = "3" -> 13
      [] c = "4" -> 14 [] c = "5" -> 15 [] c = "6" -> 16 [] c = "7" -> 17
      [] c = "8" -> 18 [] c = "9" -> 19
      [] c = "a" -> 20 [] c = "b" -> 21 [] c = "d" -> 23 [] c = "e" -> 24
      [] c = "i" -> 28 [] c = "m" -> 32 [] c = "n" -> 33 [] c = "s" -> 38
      [] c = "t" -> 39 [] c = "x" -> 43
      [] OTHER -> 50

\* a.localeCompare(b) < 0
RECURSIVE localeCompareLess(_, _)
localeCompareLess(a, b) ==
    IF b = <<>> THEN FALSE
    ELSE IF a = <<>> THEN TRUE
    ELSE IF Head(a) = Head(b) THEN localeCompareLess(Tail(a), Tail(b))
    ELSE CharRank(Head(a)) < CharRank(Head(b))

\* flattenedFiles.sort((a, b) => a.path.localeCompare(b.path))
RECURSIVE SortByPath(_)
SortByPath(entries) ==
    IF entries = {} THEN <<>>
    ELSE LET first == CHOOSE e \in entries :
                        \A o \in entries \ {e} : localeCompareLess(e.path, o.path)
         IN  <<first>> \o SortByPath(entries \ {first})

RECURSIVE SeqToSet(_)
SeqToSet(s) == IF s = <<>> THEN {} ELSE {Head(s)} \cup SeqToSet(Tail(s))

\* walk(dir, parentPath): every file under dir with the index.mdx that governs
\* its directory, sorted by path
RECURSIVE walk(_, _)
walk(dir, parentPath) ==
    LET immediateFiles == readdir(dir)
        currentIndexMdx == join(PathOf(dir), IndexMdx)
        parent == IF IndexMdx \in immediateFiles THEN currentIndexMdx ELSE parentPath
        recursiveFiles ==
            UNION { IF isFile(dir \o <<file>>)
                    THEN { [path |-> join(PathOf(dir), file), parentPath |-> parent] }
                    ELSE SeqToSet(walk(dir \o <<file>>, parent)) : file \in immediateFiles }
    IN  SortByPath(recursiveFiles)

(***************************************************************************)
(* The segmenter.  A source text is identified by a number c; the parser   *)
(* (fromMarkdown with the mdx extensions) yields the top-level nodes of    *)
(* its tree, Doc(c): a meta export followed by headings and paragraphs.    *)
(* Text c has c + 1 prose nodes and starts with a heading iff c is odd.    *)
(***************************************************************************)
Null == <<>>

Contents == 1..MaxContent

Doc(c) ==
    <<[type |-> "mdxjsEsm", v |-> c]>> \o
    [i \in 1..(c + 1) |->
        [type |-> IF i % 2 = c % 2 THEN "heading" ELSE "paragraph", v |-> c * 10 + i]]

\* createHash('sha256').update(content).digest('base64'): one value per text
Checksum(c) == <<"sha256", c>>

\* extractMetaExport: the literal of the first mdxjsEsm node, if there is one
extractMetaExport(children) ==
    LET metaExportNodes == SelectSeq(children, LAMBDA node : node.type = "mdxjsEsm")
    IN  IF metaExportNodes = <<>> THEN Null ELSE <<"meta", Head(metaExportNodes).v>>

MdxTypes ==
    {"mdxjsEsm", "mdxJsxFlowElement", "mdxJsxTextElement", "mdxFlowExpression",
     "mdxTextExpression"}

\* filter(mdxTree, node => !mdxTypes.includes(node.type)) on the top-level nodes
filterMdx(children) == SelectSeq(children, LAMBDA node : node.type \notin MdxTypes)

\* a variant of isHeading that holds of the nodes that are no heading
isNotHeading(node) == node.type # "heading"

\* (node) => node.type === 'heading'
isHeading(node) == node.type = "heading"

\* splitTreeBy: the reduce over tree.children; a node opens a new tree when no
\* tree exists yet or the predicate holds, and joins the last tree otherwise.
\* The predicate is given as the set of the nodes it holds of.
splitTreeBy(children, matching) ==
    LET reduce[n \in 0..Len(children)] ==
            IF n = 0 THEN <<>>
            ELSE LET trees == reduce[n - 1]
                     node == children[n]
                 IN  IF trees = <<>> \/ node \in matching
                     THEN Append(trees, <<node>>)
                     ELSE [trees EXCEPT ![Len(trees)] = Append(@, node)]
    IN  reduce[Len(children)]

\* toString(firstNode): the text of a heading
toString(node) == <<"text", node.v>>

\* GithubSlugger.slug: the n-th repetition of a heading gets the suffix n
slug(heading, earlier) ==
    <<"slug", heading[2],
      Cardinality({j \in 1..Len(earlier) : earlier[j] = heading})>>

\* processMdxForSearch
processMdxForSearch(c) ==
    LET mdxTree == Doc(c)
        mdTree == filterMdx(mdxTree)
        sectionTrees == splitTreeBy(mdTree, { node \in SeqToSet(mdTree) : isHeading(node) })
        headingOf(tree) == IF isHeading(Head(tree)) THEN toString(Head(tree)) ELSE Null
        headings == [j \in 1..Len(sectionTrees) |-> headingOf(sectionTrees[j])]
    IN  [checksum |-> Checksum(c),
         meta |-> extractMetaExport(mdxTree),
         sections |->
            [j \in 1..Len(sectionTrees) |->
                [content |-> sectionTrees[j],
                 heading |-> headings[j],
                 slug |-> IF headings[j] = Null THEN Null
                          ELSE slug(headings[j], SubSeq(headings, 1, j - 1))]]]

\* generateEmbedding: the vector and the token count of the provider for a text
generateEmbedding(heading, content) ==
    [vectors |-> <<"vector", heading, content>>,
     tokens |-> Len(content) + (IF heading = Null THEN 0 ELSE 1)]

\* new MarkdownEmbeddingSource('guide', entry.path, entry.parentPath)
MarkdownEmbeddingSource(source, filePath, parentFilePath) ==
    [type |-> "markdown",
     source |-> source,
     filePath |-> filePath,
     path |-> formatPath(filePath),
     parentPath |-> IF parentFilePath # Null THEN formatPath(parentFilePath) ELSE Null]

\* /\.mdx?$/.test(path)
isMarkdownFile(path) == EndsWith(path, DotMdx) \/ EndsWith(path, DotMd)

\* the embeddingSources of indexFiles, in the order of the walker
discoverSources ==
    LET entries == SelectSeq(walk(RootDir, Null), LAMBDA e : isMarkdownFile(e.path))
    IN  [j \in 1..Len(entries) |->
            MarkdownEmbeddingSource("guide", entries[j].path, entries[j].parentPath)]

\* the source text a file path names
FileOfPath(filePath) == CHOOSE f \in FileSystem : PathOf(f) = filePath

(***************************************************************************)
(* State.                                                                  *)
(***************************************************************************)
VARIABLES
    contents,          \* the text of every source file
    page,              \* table page
    page_section,      \* table page_section
    pageSeq,           \* last id the sequence of page.id issued
    sectionSeq,        \* last id the sequence of page_section.id issued
    pc,                \* the await indexFiles is at; "idle": the script is not running
    shouldRefresh,     \* argv.refresh
    embeddingSources,  \* the discovered documents
    idx,               \* position of the for loop over embeddingSources
    loaded,            \* { checksum, meta, sections } of embeddingSource.load()
    existingPage,      \* const existingPage
    parentPage,        \* id of const parentPage, 0 when null
    pageId,            \* page.id of the upserted page
    k,                 \* position of the for loop over sections
    embedding,         \* const embedding
    pageSectionId,     \* pageSection.id
    \* history of the executions, read by the properties only
    runs,              \* number of runs started
    mode,              \* what the current document entered: "none", "skip", "reindex"
    failedAt,          \* the operation of the current document that failed, or "none"
    interrupted,       \* the last run was killed
    stepsOk,           \* <<section, step>> pairs that succeeded in this re-index
    processed,         \* positions of embeddingSources whose processing began
    ops,               \* store writes and provider calls of the run
    failedDocs,        \* paths whose re-index failed or was cut in this run
    runFailed,         \* some operation of this run failed
    start,             \* the tables and texts when the run started
    prev,              \* how the previous run ended
    edited,            \* files whose text changed since the last run ended
    events,            \* number of rewrites, failed operations and kills so far
    \* the query route (GET)
    handler,           \* the await GET is at; "idle": no request is being served
    query,             \* const query
    queryEmbedding,    \* const embedding of GET
    calls,             \* provider calls and store queries of the request, and the one that failed
    response,          \* the response GET returned
    \* an application of one of the pure functions
    input,             \* the argument
    output             \* the value returned

storeVars == <<page, page_section, pageSeq, sectionSeq>>
localVars == <<loaded, existingPage, parentPage, pageId, k, embedding, pageSectionId>>
runVars == <<shouldRefresh, embeddingSources, idx>>
docHistory == <<mode, failedAt, stepsOk>>
runHistory == <<runs, interrupted, processed, ops, failedDocs, runFailed, start, prev>>
requestVars == <<handler, query, queryEmbedding, calls, response>>
callVars == <<input, output>>
indexerVars ==
    <<contents, storeVars, pc, runVars, localVars, docHistory, runHistory, edited, events>>
vars == <<indexerVars, requestVars, callVars>>

\* an operation of the current document failed, or the process was killed in it
failed == failedAt # "none"

NoPage == [id |-> 0, path |-> Null, checksum |-> Null, parentPath |-> Null]
NoLoad == [checksum |-> Null, meta |-> Null, sections |-> <<>>]
NoEmbedding == [vectors |-> Null, tokens |-> 0]
NoOps == [deletes |-> 0, inserts |-> 0, embeddingWrites |-> 0, providerCalls |-> 0]
NoRun == [ended |-> FALSE, refresh |-> FALSE, clean |-> FALSE, failedDocs |-> {}]

\* searchParams.get(name) is null when the request has no such parameter, and a
\* string, which may be empty, when it has one
NullValue == [type |-> "null", value |-> <<>>]
StringValue(text) == [type |-> "string", value |-> text]

\* unembedded: the ids of the rows without embedding in the tables the store query read
NoCalls == [provider |-> 0, store |-> 0, failed |-> "none", unembedded |-> {}]
NoResponse == [status |-> 0, error |-> "", context |-> <<>>]

\* no request is being served, and none was
noRequest ==
    /\ handler = "idle"
    /\ query = NullValue
    /\ queryEmbedding = NoEmbedding
    /\ calls = NoCalls
    /\ response = NoResponse

\* no pure function is being applied
noCall ==
    /\ input = Null
    /\ output = Null

(***************************************************************************)
(* The store operations of prisma the script uses.                         *)
(***************************************************************************)
\* prisma.page.findUnique({ where: { path } }): the row, or NoPage
findUnique(path) ==
    IF \E p \in page : p.path = path
    THEN CHOOSE p \in page : p.path = path
    ELSE [id |-> 0]

\* the row with the given id
pageById(id) == CHOOSE p \in page : p.id = id

\* findUnique with select { id, path, checksum, parentPage }
findExisting(path) ==
    LET p == findUnique(path)
    IN  IF p.id = 0 THEN NoPage
        ELSE [id |-> p.id, path |-> p.path, checksum |-> p.checksum,
              parentPath |-> IF p.parentPageId = 0 THEN Null
                             ELSE pageById(p.parentPageId).path]

\* a field given as undefined in data is left as it is
orKeep(value, old) == IF value = 0 THEN old ELSE value

\* a variant of updateParent whose data also carries checksum: null
updateParentClearingChecksum(id, parentId) ==
    { IF p.id = id
      THEN [p EXCEPT !.parentPageId = orKeep(parentId, @), !.checksum = Null]
      ELSE p : p \in page }

\* prisma.page.update({ where: { id }, data: { parentPageId: parentPage?.id } })
updateParent(id, parentId) ==
    { IF p.id = id THEN [p EXCEPT !.parentPageId = orKeep(parentId, @)] ELSE p : p \in page }

\* a variant of sectionsToDelete without the where clause
sectionsToDeleteAll(id) == page_section

\* a variant of sectionsToDelete that leaves the rows without embedding
sectionsToDeleteEmbedded(id) ==
    { s \in page_section : s.pageId = id /\ s.embedding # Null }

\* prisma.pageSection.deleteMany({ where: { pageId } }): the rows that go
sectionsToDelete(id) == { s \in page_section : s.pageId = id }

\* a variant of upsertUpdate whose update branch leaves the checksum alone
upsertUpdateKeepingChecksum(p, src, meta, parentId) ==
    [p EXCEPT !.path = src.path, !.type = src.type, !.source = src.source,
              !.meta = meta, !.parentPageId = orKeep(parentId, @)]

\* the update branch of prisma.page.upsert
upsertUpdate(p, src, meta, parentId) ==
    [p EXCEPT !.checksum = Null, !.path = src.path, !.type = src.type,
              !.source = src.source, !.meta = meta,
              !.parentPageId = orKeep(parentId, @)]

\* the create branch of prisma.page.upsert
upsertCreate(id, src, meta, parentId) ==
    [id |-> id, parentPageId |-> parentId, path |-> src.path, checksum |-> Null,
     meta |-> meta, type |-> src.type, source |-> src.source]

\* prisma.pageSection.create
createSection(id, ofPage, section, tokens) ==
    [id |-> id, pageId |-> ofPage, slug |-> section.slug, heading |-> section.heading,
     content |-> section.content, tokenCount |-> tokens, embedding |-> Null]

\* UPDATE page_section SET embedding = ... WHERE id = ...
writeEmbedding(id, vectors) ==
    { IF s.id = id THEN [s EXCEPT !.embedding = vectors] ELSE s : s \in page_section }

\* prisma.page.update({ where: { id }, data: { checksum } })
updateChecksum(id, checksum) ==
    { IF p.id = id THEN [p EXCEPT !.checksum = checksum] ELSE p : p \in page }

(***************************************************************************)
(* indexFiles.                                                             *)
(***************************************************************************)
cur == embeddingSources[idx]

\* a variant of isUpToDate that compares the checksums with !== instead of ===
isUpToDateNegated(refresh, existing, checksum) ==
    ~refresh /\ existing.id # 0 /\ existing.checksum # checksum

\* line 284: the page and its sections need no regeneration
isUpToDate(refresh, existing, checksum) ==
    ~refresh /\ existing.id # 0 /\ existing.checksum = checksum

\* line 285: the stored parent is not the parent the walker reports
parentHasChanged(existing, parentPath) == existing.parentPath # parentPath

\* a variant of afterError whose section catch logs without rethrowing, so that
\* the loop goes on with the next section
afterErrorSwallowed(at, section, count) ==
    IF at \in {"embed", "createSection", "writeEmbedding"}
    THEN [pc |-> IF section < count THEN "embed" ELSE "setChecksum", k |-> section + 1]
    ELSE [pc |-> "finally", k |-> section]

\* where control goes when the operation at `at` throws: the catch of the
\* section loop rethrows, the catch of the document logs, finally runs
afterError(at, section, count) == [pc |-> "finally", k |-> section]

Fallible ==
    {"load", "findExisting", "patchFindParent", "patchUpdate", "deleteSections",
     "findParent", "upsert", "embed", "createSection", "writeEmbedding", "setChecksum"}

ReindexSteps ==
    {"deleteSections", "findParent", "upsert", "embed", "createSection",
     "writeEmbedding", "setChecksum"}

emptyStore ==
    /\ page = {}
    /\ page_section = {}
    /\ pageSeq = 0
    /\ sectionSeq = 0

\* every source file holds its first text
firstTexts == contents = [f \in FileSystem |-> 1]

notStarted ==
    /\ pc = "idle"
    /\ shouldRefresh = FALSE
    /\ embeddingSources = <<>>
    /\ idx = 0
    /\ loaded = NoLoad
    /\ existingPage = NoPage
    /\ parentPage = 0
    /\ pageId = 0
    /\ k = 0
    /\ embedding = NoEmbedding
    /\ pageSectionId = 0
    /\ runs = 0
    /\ mode = "none"
    /\ failedAt = "none"
    /\ interrupted = FALSE
    /\ stepsOk = {}
    /\ processed = {}
    /\ ops = NoOps
    /\ failedDocs = {}
    /\ runFailed = FALSE
    /\ start = [page |-> {}, page_section |-> {}, edited |-> {}, prev |-> NoRun]
    /\ prev = NoRun
    /\ edited = {}
    /\ events = 0

Init ==
    /\ firstTexts
    /\ emptyStore
    /\ notStarted
    /\ noRequest
    /\ noCall

resetLocals ==
    /\ loaded' = NoLoad
    /\ existingPage' = NoPage
    /\ parentPage' = 0
    /\ pageId' = 0
    /\ k' = 0
    /\ embedding' = NoEmbedding
    /\ pageSectionId' = 0

\* what the run that ends leaves for the next one
endOfRun(cut, anyFailure, failedPaths) ==
    [ended |-> TRUE, refresh |-> shouldRefresh,
     clean |-> ~cut /\ ~anyFailure, failedDocs |-> failedPaths]

\* a source file is rewritten while the script is not running
Edit(f, c) ==
    /\ pc = "idle"
    /\ runs < MaxRuns
    /\ events < MaxEvents
    /\ c # contents[f]
    /\ contents' = [contents EXCEPT ![f] = c]
    /\ edited' = edited \cup {f}
    /\ events' = events + 1
    /\ UNCHANGED <<requestVars, callVars>>
    /\ UNCHANGED <<storeVars, pc, runVars, localVars, docHistory, runHistory>>

\* lines 239-266: the script starts, discovers the documents and enters the loop
StartRun(refresh) ==
    /\ pc = "idle"
    /\ runs < MaxRuns
    /\ runs' = runs + 1
    /\ shouldRefresh' = refresh
    /\ embeddingSources' = discoverSources
    /\ idx' = 1
    /\ pc' = IF discoverSources = <<>> THEN "idle" ELSE "load"
    /\ processed' = IF discoverSources = <<>> THEN {} ELSE {1}
    /\ mode' = "none"
    /\ failedAt' = "none"
    /\ stepsOk' = {}
    /\ interrupted' = FALSE
    /\ ops' = NoOps
    /\ failedDocs' = {}
    /\ runFailed' = FALSE
    /\ start' = [page |-> page, page_section |-> page_section, edited |-> edited,
                 prev |-> prev]
    /\ edited' = {}
    /\ UNCHANGED <<requestVars, callVars>>
    /\ UNCHANGED <<contents, storeVars, localVars, prev, events>>

\* line 270: embeddingSource.load()
Load ==
    /\ pc = "load"
    /\ loaded' = processMdxForSearch(contents[FileOfPath(cur.filePath)])
    /\ pc' = "findExisting"
    /\ UNCHANGED <<requestVars, callVars>>
    /\ UNCHANGED <<contents, storeVars, runVars, existingPage, parentPage, pageId, k,
                   embedding, pageSectionId, docHistory, runHistory, edited, events>>

\* lines 273-299: look the page up and decide to skip, to patch or to re-index
FindExisting ==
    /\ pc = "findExisting"
    /\ LET existing == findExisting(cur.path)
       IN  /\ existingPage' = existing
           /\ IF isUpToDate(shouldRefresh, existing, loaded.checksum)
              THEN /\ mode' = "skip"
                   /\ pc' = IF parentHasChanged(existing, cur.parentPath)
                            THEN "patchFindParent" ELSE "finally"
              ELSE /\ mode' = "reindex"
                   /\ pc' = IF existing.id # 0 THEN "deleteSections" ELSE "findParent"
    /\ UNCHANGED <<requestVars, callVars>>
    /\ UNCHANGED <<contents, storeVars, runVars, loaded, parentPage, pageId, k, embedding,
                   pageSectionId, failedAt, stepsOk, runHistory, edited, events>>

\* line 287
PatchFindParent ==
    /\ pc = "patchFindParent"
    /\ parentPage' = findUnique(cur.parentPath).id
    /\ pc' = "patchUpdate"
    /\ UNCHANGED <<requestVars, callVars>>
    /\ UNCHANGED <<contents, storeVars, runVars, loaded, existingPage, pageId, k, embedding,
                   pageSectionId, docHistory, runHistory, edited, events>>

\* lines 288-293
PatchUpdate ==
    /\ pc = "patchUpdate"
    /\ page' = updateParent(existingPage.id, parentPage)
    /\ pc' = "finally"
    /\ UNCHANGED <<requestVars, callVars>>
    /\ UNCHANGED <<contents, page_section, pageSeq, sectionSeq, runVars, localVars,
                   docHistory, runHistory, edited, events>>

\* line 298
DeleteSections ==
    /\ pc = "deleteSections"
    /\ page_section' = page_section \ sectionsToDelete(existingPage.id)
    /\ ops' = [ops EXCEPT !.deletes = @ + Cardinality(sectionsToDelete(existingPage.id))]
    /\ pc' = "findParent"
    /\ UNCHANGED <<requestVars, callVars>>
    /\ UNCHANGED <<contents, page, pageSeq, sectionSeq, runVars, localVars, docHistory,
                   runs, interrupted, processed, failedDocs, runFailed, start, prev, edited, events>>

\* line 301
FindParent ==
    /\ pc = "findParent"
    /\ parentPage' = findUnique(cur.parentPath).id
    /\ pc' = "upsert"
    /\ UNCHANGED <<requestVars, callVars>>
    /\ UNCHANGED <<contents, storeVars, runVars, loaded, existingPage, pageId, k, embedding,
                   pageSectionId, docHistory, runHistory, edited, events>>

\* lines 305-328
Upsert ==
    /\ pc = "upsert"
    /\ LET old == findUnique(cur.path)
       IN  IF old.id # 0
           THEN /\ page' = (page \ {old}) \cup
                              {upsertUpdate(old, cur, loaded.meta, parentPage)}
                /\ pageId' = old.id
                /\ pageSeq' = pageSeq
           ELSE /\ page' = page \cup
                              {upsertCreate(pageSeq + 1, cur, loaded.meta, parentPage)}
                /\ pageId' = pageSeq + 1
                /\ pageSeq' = pageSeq + 1
    /\ k' = 1
    /\ pc' = IF loaded.sections = <<>> THEN "setChecksum" ELSE "embed"
    /\ UNCHANGED <<requestVars, callVars>>
    /\ UNCHANGED <<contents, page_section, sectionSeq, runVars, loaded, existingPage,
                   parentPage, embedding, pageSectionId, docHistory, runHistory, edited, events>>

\* lines 331-332
Embed ==
    /\ pc = "embed"
    /\ embedding' = generateEmbedding(loaded.sections[k].heading, loaded.sections[k].content)
    /\ ops' = [ops EXCEPT !.providerCalls = @ + 1]
    /\ stepsOk' = stepsOk \cup {<<k, "embed">>}
    /\ pc' = "createSection"
    /\ UNCHANGED <<requestVars, callVars>>
    /\ UNCHANGED <<contents, storeVars, runVars, loaded, existingPage, parentPage, pageId,
                   k, pageSectionId, mode, failedAt, runs, interrupted, processed,
                   failedDocs, runFailed, start, prev, edited, events>>

\* lines 334-342
CreateSection ==
    /\ pc = "createSection"
    /\ page_section' = page_section \cup
           {createSection(sectionSeq + 1, pageId, loaded.sections[k], embedding.tokens)}
    /\ sectionSeq' = sectionSeq + 1
    /\ pageSectionId' = sectionSeq + 1
    /\ ops' = [ops EXCEPT !.inserts = @ + 1]
    /\ stepsOk' = stepsOk \cup {<<k, "create">>}
    /\ pc' = "writeEmbedding"
    /\ UNCHANGED <<requestVars, callVars>>
    /\ UNCHANGED <<contents, page, pageSeq, runVars, loaded, existingPage, parentPage,
                   pageId, k, embedding, mode, failedAt, runs, interrupted, processed,
                   failedDocs, runFailed, start, prev, edited, events>>

\* lines 345-349, and the step of the for loop
WriteEmbedding ==
    /\ pc = "writeEmbedding"
    /\ page_section' = writeEmbedding(pageSectionId, embedding.vectors)
    /\ ops' = [ops EXCEPT !.embeddingWrites = @ + 1]
    /\ stepsOk' = stepsOk \cup {<<k, "write">>}
    /\ k' = k + 1
    /\ pc' = IF k < Len(loaded.sections) THEN "embed" ELSE "setChecksum"
    /\ UNCHANGED <<requestVars, callVars>>
    /\ UNCHANGED <<contents, page, pageSeq, sectionSeq, runVars, loaded, existingPage,
                   parentPage, pageId, embedding, pageSectionId, mode, failedAt, runs,
                   interrupted, processed, failedDocs, runFailed, start, prev, edited, events>>

\* lines 362-365
SetChecksum ==
    /\ pc = "setChecksum"
    /\ page' = updateChecksum(pageId, loaded.checksum)
    /\ pc' = "finally"
    /\ UNCHANGED <<requestVars, callVars>>
    /\ UNCHANGED <<contents, page_section, pageSeq, sectionSeq, runVars, localVars,
                   docHistory, runHistory, edited, events>>

\* the awaited operation rejects: a store or provider error, an unreadable or
\* malformed file.  The failed operation changes nothing in the store.
OperationFails ==
    /\ events < MaxEvents
    /\ events' = events + 1
    /\ pc \in Fallible
    /\ LET next == afterError(pc, k, Len(loaded.sections))
       IN  /\ pc' = next.pc
           /\ k' = next.k
    /\ failedAt' = pc
    /\ runFailed' = TRUE
    /\ ops' = IF pc = "embed" THEN [ops EXCEPT !.providerCalls = @ + 1] ELSE ops
    /\ failedDocs' = IF pc \in ReindexSteps THEN failedDocs \cup {cur.path} ELSE failedDocs
    /\ UNCHANGED <<requestVars, callVars>>
    /\ UNCHANGED <<contents, storeVars, runVars, loaded, existingPage, parentPage, pageId,
                   embedding, pageSectionId, mode, stepsOk, runs, interrupted, processed,
                   start, prev, edited>>

\* lines 371-374: prisma.$disconnect() returns; the loop goes to the next
\* document or indexFiles returns
Disconnect ==
    /\ pc = "finally"
    /\ resetLocals
    /\ mode' = "none"
    /\ failedAt' = "none"
    /\ stepsOk' = {}
    /\ IF idx < Len(embeddingSources)
       THEN /\ idx' = idx + 1
            /\ pc' = "load"
            /\ processed' = processed \cup {idx + 1}
            /\ prev' = prev
       ELSE /\ idx' = idx
            /\ pc' = "idle"
            /\ processed' = processed
            /\ prev' = endOfRun(FALSE, runFailed, failedDocs)
    /\ UNCHANGED <<requestVars, callVars>>
    /\ UNCHANGED <<contents, storeVars, shouldRefresh, embeddingSources, runs, interrupted,
                   ops, failedDocs, runFailed, start, edited, events>>

\* line 372: prisma.$disconnect() rejects inside finally; the error leaves the
\* for loop and indexFiles, and main logs it
DisconnectFails ==
    /\ events < MaxEvents
    /\ events' = events + 1
    /\ pc = "finally"
    /\ resetLocals
    /\ pc' = "idle"
    /\ runFailed' = TRUE
    /\ prev' = endOfRun(FALSE, TRUE, failedDocs)
    /\ UNCHANGED <<requestVars, callVars>>
    /\ UNCHANGED <<contents, storeVars, runVars, docHistory, runs, interrupted, processed,
                   ops, failedDocs, start, edited>>

\* the process is killed between two operations
Interrupt ==
    /\ events < MaxEvents
    /\ events' = events + 1
    /\ pc \notin {"idle"}
    /\ resetLocals
    /\ pc' = "idle"
    /\ interrupted' = TRUE
    /\ failedAt' = IF pc = "finally" THEN failedAt ELSE "killed"
    /\ runFailed' = TRUE
    /\ failedDocs' = IF mode = "reindex" /\ pc # "finally"
                     THEN failedDocs \cup {cur.path} ELSE failedDocs
    /\ prev' = endOfRun(TRUE, TRUE, failedDocs')
    /\ UNCHANGED <<requestVars, callVars>>
    /\ UNCHANGED <<contents, storeVars, runVars, mode, stepsOk, runs, processed, ops,
                   start, edited>>

Next ==
    \/ \E f \in FileSystem, c \in Contents : Edit(f, c)
    \/ \E refresh \in BOOLEAN : StartRun(refresh)
    \/ Load
    \/ FindExisting
    \/ PatchFindParent
    \/ PatchUpdate
    \/ DeleteSections
    \/ FindParent
    \/ Upsert
    \/ Embed
    \/ CreateSection
    \/ WriteEmbedding
    \/ SetChecksum
    \/ OperationFails
    \/ Disconnect
    \/ DisconnectFails
    \/ Interrupt

Spec == Init /\ [][Next]_vars

(***************************************************************************)
(* Vocabulary of the properties.                                           *)
(***************************************************************************)
\* the rows of a page in a page_section table
rowsOf(table, id) == { s \in table : s.pageId = id }

\* the rows of a page in the order of their ids
RECURSIVE rowsInOrder(_)
rowsInOrder(rows) ==
    IF rows = {} THEN <<>>
    ELSE LET first == CHOOSE s \in rows : \A o \in rows : s.id <= o.id
         IN  <<first>> \o rowsInOrder(rows \ {first})

\* the row stores the section, with the token count and the vector of the provider
rowHolds(row, section) ==
    /\ row.content = section.content
    /\ row.heading = section.heading
    /\ row.slug = section.slug
    /\ row.tokenCount = generateEmbedding(section.heading, section.content).tokens
    /\ row.embedding = generateEmbedding(section.heading, section.content).vectors

\* every section of the list is stored for the page, with an embedding
allSectionsStored(table, id, sections) ==
    \A j \in 1..Len(sections) : \E row \in rowsOf(table, id) : rowHolds(row, sections[j])

\* the rows of the page are the sections of the list, one row each, in order
exactSections(table, id, sections) ==
    LET rows == rowsInOrder(rowsOf(table, id))
    IN  /\ Len(rows) = Len(sections)
        /\ \A j \in 1..Len(sections) : rowHolds(rows[j], sections[j])

\* the sections of the text a checksum identifies
sectionsOfChecksum(checksum) == processMdxForSearch(checksum[2]).sections

\* the text of the file behind a canonical path
textOfPath(path) ==
    LET src == CHOOSE e \in SeqToSet(discoverSources) : e.path = path
    IN  contents[FileOfPath(src.filePath)]

\* the pages stored under a path
pagesAt(path) == { p \in page : p.path = path }

\* the run that ended last processed every document to the end
endOfRunState == pc = "idle" /\ prev.ended

\* processing of a document has ended: finally is reached, or the process is gone
endOfDocument == pc \in {"finally", "idle"}

(***************************************************************************)
(* C1.  In every reachable state of the store, the states between two      *)
(* store operations of indexFiles and the states a failure or a kill       *)
(* leaves included, a page whose checksum is not null has every section of *)
(* the text that checksum identifies in page_section, each with an         *)
(* embedding.                                                              *)
(* The code deletes the old sections (line 298) before the upsert clears   *)
(* the checksum (line 305), so the statement fails.                        *)
(***************************************************************************)
C1_ChecksumImpliesSections ==
    \A p \in page :
        p.checksum # Null =>
            allSectionsStored(page_section, p.id, sectionsOfChecksum(p.checksum))

(***************************************************************************)
(* C2.  For every document that entered the re-index path: if an operation *)
(* of steps 3-5 failed or the process was killed in the middle of the      *)
(* document, then when processing of the document has ended a page stored  *)
(* under its path has a null checksum.                                     *)
(***************************************************************************)
C2_FailedReindexLeavesNullChecksum ==
    (endOfDocument /\ mode = "reindex" /\ failed) =>
        \A p \in pagesAt(cur.path) : p.checksum = Null

(***************************************************************************)
(* C3.  A run without --refresh, without failure and without a change of   *)
(* the sources since the run before it repairs every document whose        *)
(* re-index failed or was cut in the run before it: at its end the page    *)
(* of the document has the checksum of the current text and exactly the    *)
(* sections of that text, each with its embedding.                         *)
(***************************************************************************)
repaired(path) ==
    /\ pagesAt(path) # {}
    /\ \A p \in pagesAt(path) :
          /\ p.checksum = Checksum(textOfPath(path))
          /\ exactSections(page_section, p.id,
                           processMdxForSearch(textOfPath(path)).sections)

C3_NextRunRepairs ==
    (endOfRunState /\ prev.clean /\ ~prev.refresh /\ start.edited = {} /\ edited = {}) =>
        \A path \in start.prev.failedDocs : repaired(path)

(***************************************************************************)
(* C4.  In one run, whatever operation fails while a document is           *)
(* processed (the load, a store operation, a provider call, the            *)
(* disconnect of the finally block), every document after it in the order  *)
(* of the walker is still processed: a run that was not killed has         *)
(* processed every discovered document when it ends.                       *)
(***************************************************************************)
C4_EveryDocumentProcessed ==
    (pc = "idle" /\ runs > 0 /\ ~interrupted) =>
        processed = 1..Len(embeddingSources)

(***************************************************************************)
(* C5.  Within one document the checksum is written only after every       *)
(* section, in document order, had its provider call, its row insert and   *)
(* its embedding write succeed in this same re-index; it is never written  *)
(* when a step of a section failed.                                        *)
(***************************************************************************)
allSteps(count) == (1..count) \X {"embed", "create", "write"}

C5_ChecksumAfterAllSections ==
    [][\A p \in page : \A q \in page' :
          (q.id = p.id /\ q.checksum # Null /\ q.checksum # p.checksum) =>
              /\ mode = "reindex"
              /\ ~failed
              /\ p.path = cur.path
              /\ q.checksum = loaded.checksum
              /\ stepsOk = allSteps(Len(loaded.sections))
              /\ exactSections(page_section, p.id, loaded.sections)]_vars

\* the checksum of a document of several sections has just been written
C5_Witness ==
    /\ pc = "finally"
    /\ mode = "reindex"
    /\ ~failed
    /\ Len(loaded.sections) > 1
    /\ \E p \in pagesAt(cur.path) : p.checksum = loaded.checksum

(***************************************************************************)
(* C6.  When processing of a document has ended and when a run has ended,  *)
(* with or without failures, a page has a checksum if and only if every    *)
(* row of page_section of that page has an embedding.                      *)
(* The "if" fails: a re-index that fails before a row is half written      *)
(* leaves a page without checksum whose rows (none, or those of the        *)
(* sections before the failure) all have an embedding.                     *)
(***************************************************************************)
allEmbedded(id) == \A s \in rowsOf(page_section, id) : s.embedding # Null

C6_ChecksumIffAllEmbedded ==
    endOfDocument => \A p \in page : (p.checksum # Null) <=> allEmbedded(p.id)

SectionSteps == {"embed", "createSection", "writeEmbedding"}

(***************************************************************************)
(* C6, amended.  When processing of a document has ended and when a run    *)
(* has ended, with or without failures, a page that has a checksum has an  *)
(* embedding in every one of its rows; and after a failure in the middle   *)
(* of the section loop the checksum of the page is null.                   *)
(***************************************************************************)
C6_ChecksumOnlyIfAllEmbedded ==
    endOfDocument =>
        /\ \A p \in page : p.checksum # Null => allEmbedded(p.id)
        /\ failedAt \in SectionSteps => \A p \in pagesAt(cur.path) : p.checksum = Null

\* a provider or store failure after the first section of the document was stored
C6_Witness ==
    /\ pc = "finally"
    /\ failedAt \in SectionSteps
    /\ \E p \in pagesAt(cur.path) :
          /\ p.checksum = Null
          /\ rowsOf(page_section, p.id) # {}
          /\ allEmbedded(p.id)

(***************************************************************************)
(* C7.  Idempotence: of two runs in a row without --refresh, the first     *)
(* ending without failure and no source changing in between, the second    *)
(* deletes no section, inserts no section, writes no embedding, calls the  *)
(* provider not once and leaves the checksum of every page as it was.      *)
(***************************************************************************)
checksumsOf(table) == { <<p.id, p.checksum>> : p \in table }

secondOfTwoRuns ==
    /\ runs >= 2
    /\ start.prev.ended
    /\ start.prev.clean
    /\ ~start.prev.refresh
    /\ ~shouldRefresh
    /\ start.edited = {}

C7_Idempotence ==
    secondOfTwoRuns => (ops = NoOps /\ checksumsOf(page) = checksumsOf(start.page))

\* the second run went through every document of a store that has checksums
C7_Witness ==
    /\ secondOfTwoRuns
    /\ endOfRunState
    /\ prev.clean
    /\ \A path \in {e.path : e \in SeqToSet(embeddingSources)} :
          \E p \in pagesAt(path) : p.checksum # Null

(***************************************************************************)
(* C8.  Change detection: from a store in which every discovered document  *)
(* is completely indexed, after the text of exactly one document changed,  *)
(* a run without --refresh leaves the rows (ids, content, embeddings) and  *)
(* the checksum of every other page as they were, and, when it ends        *)
(* without failure, has deleted the old rows of that one page and stored   *)
(* the sections of the new text in new rows.                               *)
(***************************************************************************)
discoveredPaths == { e.path : e \in SeqToSet(discoverSources) }

completeAtStart(path) ==
    \E p \in start.page :
        /\ p.path = path
        /\ p.checksum # Null
        /\ exactSections(start.page_section, p.id, sectionsOfChecksum(p.checksum))

changedPaths ==
    { path \in discoveredPaths :
        \A p \in start.page : p.path = path => p.checksum # Checksum(textOfPath(path)) }

oneDocumentChanged ==
    /\ runs >= 1
    /\ ~shouldRefresh
    /\ edited = {}
    /\ \A path \in discoveredPaths : completeAtStart(path)
    /\ Cardinality(changedPaths) = 1

C8_ChangeDetection ==
    oneDocumentChanged =>
        /\ \A p \in start.page :
              p.path \notin changedPaths =>
                  /\ rowsOf(page_section, p.id) = rowsOf(start.page_section, p.id)
                  /\ \E q \in page : q.id = p.id /\ q.checksum = p.checksum
        /\ (endOfRunState /\ prev.clean) =>
              \A p \in page :
                  p.path \in changedPaths =>
                      /\ p.checksum = Checksum(textOfPath(p.path))
                      /\ exactSections(page_section, p.id,
                                       processMdxForSearch(textOfPath(p.path)).sections)
                      /\ { s.id : s \in rowsOf(page_section, p.id) } \cap
                         { s.id : s \in start.page_section } = {}
                      /\ ops.deletes = Cardinality(rowsOf(start.page_section, p.id))
                      /\ ops.inserts = Cardinality(rowsOf(page_section, p.id))

\* such a run has ended without failure
C8_Witness == oneDocumentChanged /\ endOfRunState /\ prev.clean

(***************************************************************************)
(* C9.  Skip or patch: while a document is processed without --refresh and *)
(* the page stored under its path has the checksum just computed, no       *)
(* provider call is made, no section is deleted or inserted, and checksum, *)
(* meta, type and source of every page stay as they are; only the          *)
(* parentPageId of that page may change, and only when the path of its     *)
(* stored parent is not the parent path the walker reports.                *)
(***************************************************************************)
storedParentPath(p) ==
    IF p.parentPageId = 0 THEN Null ELSE pageById(p.parentPageId).path

skipCase ==
    /\ pc \notin {"idle", "load"}
    /\ ~shouldRefresh
    /\ \E p \in pagesAt(cur.path) : p.checksum = loaded.checksum

C9_SkipFrame ==
    [][skipCase =>
          /\ page_section' = page_section
          /\ ops' = ops
          /\ { q.id : q \in page' } = { p.id : p \in page }
          /\ \A p \in page : \A q \in page' :
                q.id = p.id =>
                    /\ q.checksum = p.checksum
                    /\ q.meta = p.meta
                    /\ q.type = p.type
                    /\ q.source = p.source
                    /\ q.path = p.path
                    /\ q.parentPageId # p.parentPageId =>
                          /\ p.path = cur.path
                          /\ storedParentPath(p) # cur.parentPath]_vars

\* the parent link of an unchanged document has just been patched
C9_Witness ==
    /\ pc = "finally"
    /\ mode = "skip"
    /\ existingPage.parentPath # cur.parentPath
    /\ \E p \in pagesAt(cur.path) :
          /\ p.checksum = loaded.checksum
          /\ storedParentPath(p) = cur.parentPath

(***************************************************************************)
(* C10.  The parentPageId links form a forest in every reachable state of  *)
(* the store: no page is its own parent, and following the links from a    *)
(* page never comes back to it.                                            *)
(* walk gives index.mdx its own path as parentPath, so from the second run *)
(* on the page of an index document is its own parent.                     *)
(***************************************************************************)
RECURSIVE nthParent(_, _)
nthParent(id, n) ==
    IF n = 0 \/ id = 0 THEN id ELSE nthParent(pageById(id).parentPageId, n - 1)

C10_ParentForest ==
    \A p \in page : \A n \in 1..Cardinality(page) : nthParent(p.id, n) # p.id

(***************************************************************************)
(* The query route (GET).  The provider places a text in one of twelve     *)
(* directions of the plane, 30 degrees apart, and <=> is the cosine        *)
(* distance of two directions.  Similarities and distances are in          *)
(* hundredths.  A nullable number of SQL is <<>> (NULL) or <<n>>.          *)
(***************************************************************************)
\* the cosine of 0, 30, ..., 330 degrees
Cosines == <<100, 87, 50, 0, -50, -87, -100, -87, -50, 0, 50, 87>>

\* the direction of the vector the provider returns for a text: the texts of the
\* model differ in their heading and in the length of their content
direction(vectors) ==
    ((IF vectors[2] = Null THEN 0 ELSE vectors[2][2]) + Len(vectors[3])) % Len(Cosines)

\* a <=> b
cosineDistance(a, b) ==
    100 - Cosines[((direction(a) - direction(b)) % Len(Cosines)) + 1]

\* the number of characters of the markdown of a node, and of the blank line
\* between two nodes
Chars(node) == 2 * node.v

\* LENGTH(ps.content)
RECURSIVE LENGTH(_)
LENGTH(content) ==
    IF content = <<>> THEN 0
    ELSE Chars(Head(content)) + (IF Len(content) > 1 THEN 2 ELSE 0) + LENGTH(Tail(content))

\* > .5
MinSimilarity == 50
\* > 50
MinLength == 50
\* LIMIT 15
Limit == 15

\* 1 - (ps.embedding <=> vectors): NULL for a row whose embedding is NULL
similarity(row, vectors) ==
    IF row.embedding = Null THEN Null
    ELSE <<100 - cosineDistance(row.embedding, vectors)>>

\* nullable > n, which is true only of a number
greater(nullable, n) == nullable # Null /\ nullable[1] > n

\* a variant of where that compares with >= instead of >
whereAtLeast(row, vectors) ==
    /\ similarity(row, vectors) # Null
    /\ similarity(row, vectors)[1] >= MinSimilarity
    /\ LENGTH(row.content) >= MinLength

\* a variant of where without the condition on the similarity
whereLongEnough(row, vectors) == LENGTH(row.content) > MinLength

\* WHERE 1 - (ps.embedding <=> vectors) > .5 AND LENGTH(ps.content) > 50
where(row, vectors) ==
    /\ greater(similarity(row, vectors), MinSimilarity)
    /\ LENGTH(row.content) > MinLength

\* FROM page_section AS ps JOIN page AS p ON ps.page_id = p.id, with the
\* columns of the SELECT
select(pages, row, vectors) ==
    { [id |-> row.id, page_id |-> row.pageId, heading |-> row.heading,
       content |-> row.content, similarity |-> similarity(row, vectors),
       path |-> p.path] : p \in { p \in pages : p.id = row.pageId } }

\* a comes before b under ORDER BY similarity DESC (NULLs first); rows of equal
\* similarity come in the order of the plan, here by id, ascending or descending
before(a, b, ascending) ==
    IF a.similarity = Null \/ b.similarity = Null
    THEN IF a.similarity = b.similarity
         THEN (IF ascending THEN a.id < b.id ELSE a.id > b.id)
         ELSE a.similarity = Null
    ELSE IF a.similarity[1] = b.similarity[1]
         THEN (IF ascending THEN a.id < b.id ELSE a.id > b.id)
         ELSE a.similarity[1] > b.similarity[1]

RECURSIVE orderBy(_, _)
orderBy(rows, ascending) ==
    IF rows = {} THEN <<>>
    ELSE LET first == CHOOSE r \in rows : \A o \in rows \ {r} : before(r, o, ascending)
         IN  <<first>> \o orderBy(rows \ {first}, ascending)

\* LIMIT n
limit(rows, n) == SubSeq(rows, 1, IF Len(rows) < n THEN Len(rows) ELSE n)

\* prisma.$queryRaw`SELECT ... LIMIT 15`
queryRaw(pages, sections, vectors, ascending) ==
    LET matching == { s \in sections : where(s, vectors) }
    IN  limit(orderBy(UNION { select(pages, s, vectors) : s \in matching }, ascending),
              Limit)

\* a variant of truthy that tests query !== null
notNull(value) == value.type # "null"

\* the truth value of a value: null, undefined, false, 0 and '' are falsy, so
\* !query holds of null and of ''
truthy(value) ==
    CASE value.type \in {"null", "undefined"} -> FALSE
      [] value.type = "boolean" -> value.value
      [] value.type = "number" -> value.value # 0
      [] value.type = "string" -> value.value # <<>>

\* NextResponse.json({ error: 'No query provided' }, { status: 400 })
BadRequest == [status |-> 400, error |-> "No query provided", context |-> <<>>]

\* NextResponse.json({ ...context })
Ok(context) == [status |-> 200, error |-> "", context |-> context]

\* a variant of catch that answers with the message of the error
catchWithMessage(error) == [status |-> 500, error |-> error, context |-> <<>>]

\* the catch block: NextResponse.json({ error: 'Something went wrong' }, { status: 500 })
catch(error) == [status |-> 500, error |-> "Something went wrong", context |-> <<>>]

\* GET is called: the query is read, and refused when it is null or empty
Get(q) ==
    /\ handler = "idle"
    /\ query' = q
    /\ queryEmbedding' = NoEmbedding
    /\ calls' = NoCalls
    /\ IF ~truthy(q)
       THEN handler' = "idle" /\ response' = BadRequest
       ELSE handler' = "generateEmbedding" /\ response' = NoResponse
    /\ UNCHANGED <<indexerVars, callVars>>

\* await generateEmbedding(query) returns
EmbedQuery ==
    /\ handler = "generateEmbedding"
    /\ queryEmbedding' = generateEmbedding(Null, query.value)
    /\ calls' = [calls EXCEPT !.provider = @ + 1]
    /\ handler' = "queryRaw"
    /\ UNCHANGED <<indexerVars, callVars, query, response>>

\* await generateEmbedding(query) throws
EmbedQueryFails ==
    /\ handler = "generateEmbedding"
    /\ calls' = [calls EXCEPT !.provider = @ + 1, !.failed = "provider"]
    /\ response' = catch("the provider's error")
    /\ handler' = "idle"
    /\ UNCHANGED <<indexerVars, callVars, query, queryEmbedding>>

\* await prisma.$queryRaw returns: one statement, which reads one state of the tables
QueryStore(ascending) ==
    /\ handler = "queryRaw"
    /\ calls' = [calls EXCEPT !.store = @ + 1,
                               !.unembedded = { s.id : s \in { t \in page_section :
                                                                 t.embedding = Null } }]
    /\ response' = Ok(queryRaw(page, page_section, queryEmbedding.vectors, ascending))
    /\ handler' = "idle"
    /\ UNCHANGED <<indexerVars, callVars, query, queryEmbedding>>

\* await prisma.$queryRaw throws
QueryStoreFails ==
    /\ handler = "queryRaw"
    /\ calls' = [calls EXCEPT !.store = @ + 1, !.failed = "store"]
    /\ response' = catch("the store's error")
    /\ handler' = "idle"
    /\ UNCHANGED <<indexerVars, callVars, query, queryEmbedding>>

(***************************************************************************)
(* The query route over a store that does not change.  The store holds    *)
(* the pages of the discovered documents and sections of seven kinds: two  *)
(* kinds, in any number up to MaxAlike, that a query can match, and one    *)
(* section at most of each of five kinds that are far from the queries,    *)
(* short, at a threshold, or without embedding.                            *)
(***************************************************************************)
\* the number of stored sections of one kind
MaxAlike == 9
\* the number of characters of the longest query
MaxQuery == 2

\* a kind of section: the heading (its text), half the number of characters
\* of the section's markdown, and whether the embedding was written
Nearest == [heading |-> 0, half |-> 50, embedded |-> TRUE]
Neighbour == [heading |-> 1, half |-> 26, embedded |-> TRUE]
Others ==
    << [heading |-> 2, half |-> 50, embedded |-> TRUE],
       [heading |-> 3, half |-> 50, embedded |-> TRUE],
       [heading |-> 0, half |-> 25, embedded |-> TRUE],
       [heading |-> 0, half |-> 20, embedded |-> TRUE],
       [heading |-> 0, half |-> 50, embedded |-> FALSE] >>

\* the section of a document that has the heading and one paragraph
sectionOfKind(kind) ==
    LET tree == <<[type |-> "heading", v |-> kind.heading],
                  [type |-> "paragraph", v |-> kind.half - 1 - kind.heading]>>
    IN  [content |-> tree, heading |-> toString(tree[1]),
         slug |-> slug(toString(tree[1]), <<>>)]

\* the row indexFiles leaves for a section: created, and then given its embedding
storedRow(id, ofPage, kind) ==
    LET section == sectionOfKind(kind)
        e == generateEmbedding(section.heading, section.content)
        row == createSection(id, ofPage, section, e.tokens)
    IN  IF kind.embedded THEN [row EXCEPT !.embedding = e.vectors] ELSE row

\* the sections of a store: kinds in the order of their insertion
storedKinds(nears, nexts, present) ==
    [j \in 1..nexts |-> Neighbour]
    \o SelectSeq(Others, LAMBDA kind : \E j \in present : Others[j] = kind)
    \o [j \in 1..nears |-> Nearest]

Queries ==
    {NullValue, StringValue(<<>>)}
    \cup { StringValue([j \in 1..n |-> "q"]) : n \in 1..MaxQuery }

SearchInit ==
    /\ \E nears, nexts \in 0..MaxAlike, present \in SUBSET (1..Len(Others)) :
          LET kinds == storedKinds(nears, nexts, present)
          IN  /\ page_section =
                    { storedRow(j, 1 + (j % Len(discoverSources)), kinds[j]) :
                        j \in 1..Len(kinds) }
              /\ sectionSeq = Len(kinds)
    /\ page = { upsertCreate(j, discoverSources[j], Null, 0) : j \in 1..Len(discoverSources) }
    /\ pageSeq = Len(discoverSources)
    /\ firstTexts
    /\ notStarted
    /\ noRequest
    /\ noCall

SearchNext ==
    \/ \E q \in Queries : Get(q)
    \/ EmbedQuery
    \/ EmbedQueryFails
    \/ \E ascending \in BOOLEAN : QueryStore(ascending)
    \/ QueryStoreFails

SearchSpec == SearchInit /\ [][SearchNext]_vars

\* the similarity of a stored section that has an embedding to the query
similarityTo(s) == 100 - cosineDistance(s.embedding, queryEmbedding.vectors)

\* the stored sections the search has to consider: similarity above 0.5 and
\* more than 50 characters
qualifying ==
    { s \in page_section :
        s.embedding # Null /\ similarityTo(s) > 50 /\ LENGTH(s.content) > 50 }

\* the stored section an entry of the result is
sectionOfEntry(entry) == { s \in page_section : s.id = entry.id }

\* a result list was returned
answered == handler = "idle" /\ response.status = 200

\* C11: the result of a search holds only sections with similarity above 0.5 and
\* more than 50 characters, each once and with the path of its page; it is in
\* descending order of similarity, has at most 15 entries, and no qualifying
\* section is left out unless 15 entries of at least its similarity are returned.
C11_RetrievalFilteringAndRanking ==
    answered =>
        LET r == response.context
        IN  /\ \A i \in 1..Len(r) :
                  \E s \in qualifying :
                      /\ s.id = r[i].id
                      /\ r[i].page_id = s.pageId
                      /\ r[i].content = s.content
                      /\ r[i].heading = s.heading
                      /\ r[i].similarity = <<similarityTo(s)>>
                      /\ r[i].path = pageById(s.pageId).path
            /\ \A i, j \in 1..Len(r) : i < j =>
                  /\ r[i].id # r[j].id
                  /\ r[i].similarity[1] >= r[j].similarity[1]
            /\ Len(r) <= 15
            /\ \A s \in qualifying :
                  (\A i \in 1..Len(r) : r[i].id # s.id) =>
                      /\ Len(r) = 15
                      /\ \A i \in 1..Len(r) : r[i].similarity[1] >= similarityTo(s)

\* a search that had more than 15 qualifying sections of two similarities to
\* choose from, and sections to refuse: one at similarity 0.5, one of 50
\* characters and one without embedding
C11_Witness ==
    /\ answered
    /\ Cardinality(qualifying) > 15
    /\ \E s, t \in qualifying :
          /\ similarityTo(s) > similarityTo(t)
          /\ \A i \in 1..Len(response.context) : response.context[i].id # t.id
    /\ \E s \in page_section : s.embedding # Null /\ similarityTo(s) = 50
    /\ \E s \in page_section : LENGTH(s.content) = 50
    /\ \E s \in page_section : s.embedding = Null

\* a request was received
requested == handler # "idle" \/ response # NoResponse

\* the query of the request is missing or the empty string
absentOrEmpty == query.type = "null" \/ (query.type = "string" /\ query.value = <<>>)

\* C12: a request whose query is missing or empty is answered with status 400, and
\* neither the provider nor the store is called for it.
C12_EmptyQueryRefusedBeforeAnyCall ==
    (requested /\ absentOrEmpty) =>
        /\ handler = "idle"
        /\ response.status = 400
        /\ calls.provider = 0
        /\ calls.store = 0

\* a request with the empty string as its query was refused
C12_Witness ==
    /\ requested
    /\ query = StringValue(<<>>)
    /\ response.status = 400

\* C13: for a query that is present and not empty, a failure of the provider call
\* or of the store query gives status 500 with the generic message and nothing
\* else; status 200 is given only after one provider call and one store query that
\* both succeeded; and every request that ended has one of the two answers.
C13_OutcomeClassification ==
    (requested /\ ~absentOrEmpty) =>
        /\ calls.failed # "none" =>
              /\ handler = "idle"
              /\ response = [status |-> 500, error |-> "Something went wrong",
                             context |-> <<>>]
        /\ response.status = 200 =>
              calls.provider = 1 /\ calls.store = 1 /\ calls.failed = "none"
        /\ handler = "idle" => response.status \in {200, 500}
        /\ response.status = 500 => calls.failed # "none"

\* the provider answered and the store query failed
C13_Witness ==
    /\ requested
    /\ ~absentOrEmpty
    /\ calls.provider = 1
    /\ calls.store = 1
    /\ calls.failed = "store"
    /\ response.status = 500

(***************************************************************************)
(* formatPath as a function of its argument.                               *)
(***************************************************************************)
\* the number of segments of a path
MaxSegments == 3

\* the segments of the example of formatPath
ParallelRoutesSegments ==
    << <<"d", "o", "c", "s">>,
       <<"0", "2", "-", "a", "p", "p">>,
       <<"0", "1", "-", "b", "u", "i", "l", "d", "i", "n", "g", "-", "y", "o", "u", "r",
         "-", "a", "p", "p", "l", "i", "c", "a", "t", "i", "o", "n">>,
       <<"0", "1", "-", "r", "o", "u", "t", "i", "n", "g">>,
       <<"0", "8", "-", "p", "a", "r", "a", "l", "l", "e", "l", "-", "r", "o", "u", "t",
         "e", "s", ".", "m", "d", "x">> >>

\* 'docs/app/building-your-application/routing/parallel-routes'
ParallelRoutesUrl ==
    <<"d", "o", "c", "s", "/", "a", "p", "p", "/", "b", "u", "i", "l", "d",
      "i", "n", "g", "-", "y", "o", "u", "r", "-", "a", "p", "p", "l", "i",
      "c", "a", "t", "i", "o", "n", "/", "r", "o", "u", "t", "i", "n", "g",
      "/", "p", "a", "r", "a", "l", "l", "e", "l", "-", "r", "o", "u", "t",
      "e", "s">>

\* 'docs/guide/index.mdx'
GuideIndexPath ==
    <<"d", "o", "c", "s", "/", "g", "u", "i", "d", "e", "/", "i", "n", "d",
      "e", "x", ".", "m", "d", "x">>

\* 'docs/guide'
GuideUrl == <<"d", "o", "c", "s", "/", "g", "u", "i", "d", "e">>

\* the separators of the segments of a path: a slash, a backslash, and the two
\* backslashes of a backslash written in a string literal
Separators == { <<"/">>, <<"\\">>, <<"\\", "\\">> }

SegmentNames == { DocsName, <<"0", "2", "-", "a">>, <<"g">>, IndexName }

RECURSIVE joined(_, _)
joined(segments, separator) ==
    IF Len(segments) = 1 THEN segments[1]
    ELSE segments[1] \o separator \o joined(Tail(segments), separator)

\* the arguments formatPath is applied to
PathInputs ==
    { joined(segments, separator) \o extension :
        segments \in UNION { [1..n -> SegmentNames] : n \in 1..MaxSegments },
        separator \in Separators,
        extension \in {<<>>, DotMdx} }
    \cup { joined(ParallelRoutesSegments, separator) : separator \in Separators }
    \cup { GuideIndexPath }

FormatInit ==
    /\ firstTexts
    /\ emptyStore
    /\ firstTexts
    /\ notStarted
    /\ noRequest
    /\ input \in PathInputs
    /\ output = Null

\* formatPath(input) returns
FormatPath ==
    /\ output = Null
    /\ output' = <<formatPath(input)>>
    /\ UNCHANGED <<indexerVars, requestVars, input>>

FormatNext == FormatPath

FormatSpec == FormatInit /\ [][FormatNext]_vars

\* every separator of a path, a backslash or two, written as a slash
RECURSIVE withSlashes(_)
withSlashes(s) ==
    IF s = <<>> THEN <<>>
    ELSE IF StartsWith(s, <<"\\", "\\">>) THEN <<"/">> \o withSlashes(From(s, 3))
    ELSE IF Head(s) = "\\" THEN <<"/">> \o withSlashes(Tail(s))
    ELSE <<Head(s)>> \o withSlashes(Tail(s))

\* a path of slashes without the two digits and the dash its segments start with
RECURSIVE withoutOrderingPrefixes(_, _)
withoutOrderingPrefixes(s, atStart) ==
    IF s = <<>> THEN <<>>
    ELSE IF atStart /\ Len(s) >= 3 /\ s[1] \in Digits /\ s[2] \in Digits /\ s[3] = "-"
         THEN withoutOrderingPrefixes(From(s, 4), FALSE)
         ELSE <<Head(s)>> \o withoutOrderingPrefixes(Tail(s), Head(s) = "/")

\* the canonical path of a file path: slashes, no ordering prefixes, no .mdx
\* extension and no trailing index segment
canonical(path) ==
    DropSuffix(DropSuffix(withoutOrderingPrefixes(withSlashes(path), TRUE), DotMdx),
               <<"/">> \o IndexName)

\* C14: formatPath returns the canonical path of its argument; the path of
\* parallel-routes.mdx written with backslashes gives
\* docs/app/building-your-application/routing/parallel-routes, and
\* docs/guide/index.mdx gives docs/guide.
C14_FormatPathCanonical ==
    output # Null =>
        /\ output[1] = canonical(input)
        /\ input = joined(ParallelRoutesSegments, <<"\\">>) => output[1] = ParallelRoutesUrl
        /\ input = GuideIndexPath => output[1] = GuideUrl

(***************************************************************************)
(* C15.  When the re-index of a document has run to its end without a      *)
(* failure (the checksum is set and finally is reached), the rows of its   *)
(* page are the sections of the segmentation of the text, one row per      *)
(* section in the order of the document, each with the token count and the *)
(* vector of the provider, and none of them is a row the table held when   *)
(* the run started.                                                        *)
(***************************************************************************)
reindexCompleted == pc = "finally" /\ mode = "reindex" /\ ~failed

C15_SectionsReplaced ==
    reindexCompleted =>
        /\ exactSections(page_section, pageId,
                         processMdxForSearch(textOfPath(cur.path)).sections)
        /\ \A s \in rowsOf(page_section, pageId) :
              \A o \in start.page_section : o.id # s.id

\* a re-index completed for a page that had rows of an earlier complete indexing
\* of another text, or rows without embedding of an indexing that failed
C15_Witness ==
    /\ reindexCompleted
    /\ \E o \in rowsOf(start.page_section, pageId) : o.embedding = Null

(***************************************************************************)
(* C16.  When the provider call for section k of a document fails, the     *)
(* failing step writes nothing and leaves the section loop: the rows of    *)
(* the page are then those of the sections before k and no row exists for  *)
(* section k.  From there the only step is the disconnect, which goes to   *)
(* the next document or ends the run without a store write or a provider   *)
(* call; and no later step of the run works on a document whose re-index   *)
(* failed in it.                                                           *)
(***************************************************************************)
\* the step in which the provider call of the current section throws
providerFails == pc = "embed" /\ failedAt = "none" /\ failedAt' = "embed"

\* the document was left after a failed provider call
leftAfterProviderFailure == pc = "finally" /\ failedAt = "embed"

C16_ProviderFailureStopsDocument ==
    [][ /\ providerFails =>
              /\ pc' = "finally"
              /\ storeVars' = storeVars
              /\ ops' = [ops EXCEPT !.providerCalls = @ + 1]
              /\ exactSections(page_section', pageId,
                               SubSeq(loaded.sections, 1, k - 1))
        /\ leftAfterProviderFailure =>
              /\ pc' \in {"load", "idle"}
              /\ pc' = "load" => idx' = idx + 1
              /\ storeVars' = storeVars
              /\ ops' = ops
        /\ (runs' = runs /\ pc' \notin {"idle", "finally"}) =>
              embeddingSources'[idx'].path \notin failedDocs'
      ]_vars

\* the provider failed at a section that is not the last one of its document
C16_Witness ==
    /\ leftAfterProviderFailure
    /\ k < Len(loaded.sections)
    /\ exactSections(page_section, pageId, SubSeq(loaded.sections, 1, k - 1))

(***************************************************************************)
(* splitTreeBy as a function of the top-level nodes of a tree.             *)
(***************************************************************************)
\* the number of top-level nodes of a tree
MaxNodes == 4

\* the types of the nodes that are left after the mdx nodes are filtered out
NodeTypes == {"heading", "paragraph", "code"}

\* the children of a tree: the n-th node is told from the others by n
TreeInputs ==
    { [j \in 1..n |-> [type |-> types[j], v |-> j]] :
        n \in 0..MaxNodes, types \in [1..MaxNodes -> NodeTypes] }

SplitInit ==
    /\ firstTexts
    /\ emptyStore
    /\ firstTexts
    /\ notStarted
    /\ noRequest
    /\ input \in TreeInputs
    /\ output = Null

\* splitTreeBy(mdTree, (node) => node.type === 'heading') returns
SplitTree ==
    /\ output = Null
    /\ output' = <<splitTreeBy(input, { node \in SeqToSet(input) : isHeading(node) })>>
    /\ UNCHANGED <<indexerVars, requestVars, input>>

SplitNext == SplitTree

SplitSpec == SplitInit /\ [][SplitNext]_vars

RECURSIVE concatenation(_)
concatenation(groups) ==
    IF groups = <<>> THEN <<>> ELSE Head(groups) \o concatenation(Tail(groups))

\* the positions of the heading nodes of a sequence
headingsAt(nodes) == { j \in 1..Len(nodes) : nodes[j].type = "heading" }

\* C17: the groups splitTreeBy returns for the heading predicate give the input
\* back when concatenated; none is empty; each but the first begins with a
\* heading and none has a heading after its first node; a sequence with two
\* headings gives three groups when a node precedes the first heading, and two
\* when none does.
C17_HeadingBoundarySplitting ==
    output # Null =>
        LET groups == output[1]
        IN  /\ concatenation(groups) = input
            /\ \A g \in 1..Len(groups) :
                  /\ groups[g] # <<>>
                  /\ g > 1 => 1 \in headingsAt(groups[g])
                  /\ headingsAt(groups[g]) \subseteq {1}
            /\ Cardinality(headingsAt(input)) = 2 =>
                  Len(groups) = IF 1 \in headingsAt(input) THEN 2 ELSE 3

\* a sequence with two headings and a node before the first was split in three
C17_Witness ==
    /\ output # Null
    /\ Cardinality(headingsAt(input)) = 2
    /\ 1 \notin headingsAt(input)
    /\ Len(output[1]) = 3

(***************************************************************************)
(* getObjectFromExpression as a function of the properties of an object    *)
(* expression.  A value of the language is a record of its type and its    *)
(* value; an object is a function from its keys.                           *)
(***************************************************************************)
\* the number of properties of an object expression
MaxProperties == 2

Undefined == [type |-> "undefined", value |-> <<>>]
BooleanValue(b) == [type |-> "boolean", value |-> b]
NumberValue(n) == [type |-> "number", value |-> n]

\* a && b and a || b
and(a, b) == IF truthy(a) THEN b ELSE a
or(a, b) == IF truthy(a) THEN a ELSE b

\* the literals of the model: each type with a falsy and a truthy value
Literals ==
    { StringValue(<<>>), StringValue(<<"x">>), NumberValue(0), NumberValue(1),
      BooleanValue(FALSE), BooleanValue(TRUE) }

\* the keys of a property: an identifier, or a string literal
PropertyKeys ==
    { [type |-> "Identifier", name |-> StringValue(<<n>>)] : n \in {"a", "b"} }
    \cup { [type |-> "Literal", name |-> StringValue(<<"a">>)] }

\* the values of a property: a literal, or an expression that is none
PropertyValues ==
    { [type |-> "Literal", value |-> v] : v \in Literals }
    \cup { [type |-> "CallExpression", value |-> Undefined] }

\* the members of an object expression: properties and spread elements
Properties ==
    { [type |-> "Property", key |-> key, value |-> value] :
        key \in PropertyKeys, value \in PropertyValues }
    \cup { [type |-> "SpreadElement", key |-> Undefined, value |-> Undefined] }

ObjectExpressions == UNION { [1..n -> Properties] : n \in 0..MaxProperties }

\* { ...object, [key]: value }
withProperty(object, key, value) ==
    [name \in DOMAIN object \cup {key} |-> IF name = key THEN value ELSE object[name]]

\* getObjectFromExpression: the reduce over node.properties
getObjectFromExpression(properties) ==
    LET reduce[n \in 0..Len(properties)] ==
            IF n = 0 THEN <<>>
            ELSE LET object == reduce[n - 1]
                     property == properties[n]
                 IN  IF property.type # "Property" THEN object
                     ELSE LET key == or(and(BooleanValue(property.key.type = "Identifier"),
                                            property.key.name), Undefined)
                              value == or(and(BooleanValue(property.value.type = "Literal"),
                                              property.value.value), Undefined)
                          IN  IF ~truthy(key) THEN object
                              ELSE withProperty(object, key.value, value)
    IN  reduce[Len(properties)]

MetaInit ==
    /\ firstTexts
    /\ emptyStore
    /\ firstTexts
    /\ notStarted
    /\ noRequest
    /\ input \in ObjectExpressions
    /\ output = Null

\* getObjectFromExpression(objectExpression) returns
GetObject ==
    /\ output = Null
    /\ output' = <<getObjectFromExpression(input)>>
    /\ UNCHANGED <<indexerVars, requestVars, input>>

MetaNext == GetObject

MetaSpec == MetaInit /\ [][MetaNext]_vars

\* the property is the last one of the expression that has its key
lastOfKey(j) ==
    \A l \in (j + 1)..Len(input) :
        input[l].type = "Property" => input[l].key # input[j].key

\* the property has an identifier as key and a literal as value
scalarProperty(j) ==
    /\ input[j].type = "Property"
    /\ input[j].key.type = "Identifier"
    /\ input[j].value.type = "Literal"

\* C18: the object getObjectFromExpression returns maps the key of every property
\* with an identifier key and a string, number or boolean literal value to that
\* value, false, 0 and '' included, and has no key with a value but those.
C18_MetaKeepsScalarLiterals ==
    output # Null =>
        LET object == output[1]
        IN  /\ \A j \in 1..Len(input) :
                  (scalarProperty(j) /\ lastOfKey(j)) =>
                      /\ input[j].key.name.value \in DOMAIN object
                      /\ object[input[j].key.name.value] = input[j].value.value
            /\ \A name \in DOMAIN object :
                  object[name] # Undefined =>
                      \E j \in 1..Len(input) :
                          /\ scalarProperty(j)
                          /\ input[j].key.name.value = name

(***************************************************************************)
(* C19.  When the first run over an empty store has ended without a        *)
(* failure, every page of a document whose parentPath is the path of       *)
(* another discovered document has the id of the page stored under that    *)
(* path as its parentPageId.                                               *)
(* The parent is looked up (line 301) when the document is processed: a    *)
(* document the walker puts before its index.mdx finds no page, and the    *)
(* statement fails.                                                        *)
(***************************************************************************)
firstRunEndedClean == endOfRunState /\ runs = 1 /\ prev.clean

C19_ParentLinksResolved ==
    firstRunEndedClean =>
        \A e \in SeqToSet(discoverSources) :
            (e.parentPath # Null /\ e.parentPath # e.path
                /\ e.parentPath \in discoveredPaths) =>
                /\ pagesAt(e.path) # {}
                /\ pagesAt(e.parentPath) # {}
                /\ \A p \in pagesAt(e.path) :
                      \E parent \in pagesAt(e.parentPath) : p.parentPageId = parent.id

(***************************************************************************)
(* The query route while indexFiles runs: the steps of GET between the     *)
(* store operations of the script.  The statement of GET reads the tables  *)
(* as they are at one moment.                                              *)
(***************************************************************************)
\* the script has not run yet, and the source files all hold the same text
ServingInit ==
    /\ \E c \in Contents : contents = [f \in FileSystem |-> c]
    /\ emptyStore
    /\ notStarted
    /\ noRequest
    /\ noCall

\* the embedding write of line 345 rejects: of the operations of indexFiles, the
\* one whose failure leaves a row without embedding in the table
EmbeddingWriteFails == pc = "writeEmbedding" /\ OperationFails

ServingNext ==
    \/ \E refresh \in BOOLEAN : StartRun(refresh)
    \/ Load
    \/ FindExisting
    \/ PatchFindParent
    \/ PatchUpdate
    \/ DeleteSections
    \/ FindParent
    \/ Upsert
    \/ Embed
    \/ CreateSection
    \/ WriteEmbedding
    \/ SetChecksum
    \/ EmbeddingWriteFails
    \/ Disconnect
    \/ Get(StringValue(<<"q">>))
    \/ EmbedQuery
    \/ \E ascending \in BOOLEAN : QueryStore(ascending)

ServingSpec == ServingInit /\ [][ServingNext]_vars

\* the step in which the store query of GET returns its rows
storeQueryReturns == handler = "queryRaw" /\ handler' = "idle" /\ response'.status = 200

\* C20: every section a search returns, whatever the script is doing at the
\* moment the store query reads the tables, has an embedding in the tables read,
\* and so a similarity; a row that was inserted and has not got its embedding
\* yet is not returned.
C20_SearchReturnsEmbeddedSections ==
    [][ storeQueryReturns =>
            \A i \in 1..Len(response'.context) :
                /\ response'.context[i].similarity # Null
                /\ \E s \in page_section :
                      /\ s.id = response'.context[i].id
                      /\ s.embedding # Null
      ]_vars

\* a search returned sections while the script was between the insert of a
\* row of more than 50 characters and the write of its embedding
C20_Witness ==
    /\ answered
    /\ pc = "writeEmbedding"
    /\ Len(response.context) > 0
    /\ pageSectionId \in calls.unembedded
    /\ \E s \in page_section :
          s.id = pageSectionId /\ s.embedding = Null /\ LENGTH(s.content) > 50

====
